---- MODULE Spec2Model ----
(***************************************************************************)
(* Meeting session state machine of socketserver.py: the two in-memory     *)
(* registries (meetings, active_users), the Socket.IO rooms the handlers   *)
(* enter and leave, and the event handlers.  Every handler is a coroutine: *)
(* it runs without interruption up to an awaited sio.emit, where other     *)
(* handlers may run, and is resumed later.  A handler suspended at an      *)
(* await is an element of the bag `pending`; a handler whose last          *)
(* statement is an awaited emit has nothing left to do once that emit is   *)
(* issued and is not kept.                                                 *)
(*                                                                         *)
(* Payloads are well formed: meeting_code, target_sid and requester_sid    *)
(* are always supplied; sids named in a payload are sids the server has    *)
(* handed out.  The Socket.IO library is outside the repository: a room is *)
(* the set of sids entered and not left, an emit is delivered to the       *)
(* addressed sids that are still connected, and the library raises         *)
(* nothing.                                                                *)
(***************************************************************************)
EXTENDS Naturals, Sequences, FiniteSets, Bags

\* ---- bounds of the model ----
MaxEvents == 4
MaxHandlers == 2
MaxPart == 2

Sids == {"s1", "s2", "s3"}
Codes == {"m1", "m2"}
UserIds == {"u1"}
Actions == {"allow", "deny"}

\* Python's None: a failed dict.get, an absent payload field
None == "None"
\* absence of a key in a dict
NoMeeting == [host_sid |-> None]
NoUser == [role |-> None]

\* meetings, active_users: the registries (lines 16, 19); rooms: Socket.IO room
\* membership; conn: each sid's transport state; pending: suspended coroutines;
\* last: the step just taken; nev: events dispatched so far; cleaned: the sids
\* whose disconnect handler has returned and that were not registered since
VARIABLES meetings, active_users, rooms, conn, pending, last, nev, cleaned

vars == <<meetings, active_users, rooms, conn, pending, last, nev, cleaned>>

\* ---- list helpers ----
InList(x, s) == \E i \in 1..Len(s) : s[i] = x

FirstIndex(x, s) == CHOOSE i \in 1..Len(s) : s[i] = x /\ \A j \in 1..(i-1) : s[j] # x

\* list.remove(x) for x in the list: drops the first occurrence
ListRemove(s, x) ==
    LET k == FirstIndex(x, s)
    IN  [i \in 1..(Len(s)-1) |-> IF i < k THEN s[i] ELSE s[i+1]]

\* ---- Socket.IO emits ----
\* the sids an emit is delivered to
Recipients(to, room, skip_sid, rm, cn) ==
    LET addressed == IF to # None THEN {to}
                     ELSE IF room \in Codes THEN rm[room] \ {skip_sid}
                     ELSE {}
    IN  {s \in addressed : cn[s] = "live"}

Emit(event, to, room, skip_sid, arg, rm, cn) ==
    [event |-> event, to |-> to, room |-> room, skip_sid |-> skip_sid,
     arg |-> arg, recv |-> Recipients(to, room, skip_sid, rm, cn)]

\* what one step of a handler did
Step(op, sid, phase, done, arg, code, action, emits, error) ==
    [op |-> op, sid |-> sid, phase |-> phase, done |-> done, arg |-> arg,
     code |-> code, action |-> action, emits |-> emits, error |-> error]

\* a coroutine suspended at an await
Suspended(op, sid, pc, target, code) ==
    [op |-> op, sid |-> sid, pc |-> pc, target |-> target, meeting_code |-> code]

CanStart == nev < MaxEvents
CanSuspend == BagCardinality(pending) < MaxHandlers

Init ==
    /\ meetings = [c \in Codes |-> NoMeeting]
    /\ active_users = [s \in Sids |-> NoUser]
    /\ rooms = [c \in Codes |-> {}]
    /\ conn = [s \in Sids |-> "new"]
    /\ pending = EmptyBag
    /\ last = Step("init", None, "start", TRUE, None, None, None, <<>>, None)
    /\ nev = 0
    /\ cleaned = {}

\* sids are handed out in a fixed order (they are opaque and interchangeable)
SidOrder == <<"s1", "s2", "s3">>

connect(sid) ==
    /\ conn[sid] = "new"
    /\ \A i \in 1..Len(SidOrder) : \A j \in 1..(i-1) :
          SidOrder[i] = sid => conn[SidOrder[j]] # "new"
    /\ conn' = [conn EXCEPT ![sid] = "live"]
    /\ last' = Step("connect", sid, "start", TRUE, None, None, None, <<>>, None)
    /\ UNCHANGED <<meetings, active_users, rooms, pending, nev, cleaned>>

start_meeting(sid, meeting_code, user_id) ==
    /\ CanStart
    /\ conn[sid] = "live"
    /\ meetings' = [meetings EXCEPT ![meeting_code] =
                       [host_sid |-> sid, participants |-> <<>>]]
    /\ active_users' = [active_users EXCEPT ![sid] =
                       [user_id |-> user_id, meeting_code |-> meeting_code, role |-> "host"]]
    /\ rooms' = [rooms EXCEPT ![meeting_code] = @ \cup {sid}]
    /\ last' = Step("start_meeting", sid, "start", TRUE, None, meeting_code, None,
                    <<Emit("meeting_started", sid, None, None, meeting_code, rooms', conn)>>,
                    None)
    /\ nev' = nev + 1
    /\ cleaned' = cleaned \ {sid}
    /\ UNCHANGED <<conn, pending>>

\* the host-only guard without its role test
IsHostAnyRole(user_data) == user_data # NoUser

\* line 103 / 114: `user_data and user_data["role"] == "host"`
IsHost(user_data) == user_data # NoUser /\ user_data.role = "host"

Resume(h) == pending (-) SetToBag({h})
Suspend(h) == pending (+) SetToBag({h})

\* a disconnect that forgets to drop the connection's entry
DelUserForgotten(au, sid) == au

\* line 46: del active_users[sid], for sid in the dict
DelUser(au, sid) == [au EXCEPT ![sid] = NoUser]

disconnect(sid) ==
    LET user_data == active_users[sid]
        meeting_code == IF user_data = NoUser THEN None ELSE user_data.meeting_code
        known == user_data # NoUser /\ meetings[meeting_code] # NoMeeting
        host == known /\ user_data.role = "host"
        conn1 == [conn EXCEPT ![sid] = "gone"]
    IN  /\ CanStart
        /\ conn[sid] \in {"live", "gone"}
        /\ known => CanSuspend
        /\ conn' = conn1
        /\ nev' = nev + 1
        /\ UNCHANGED rooms
        /\ cleaned' = IF known THEN cleaned ELSE cleaned \cup {sid}
        /\ IF user_data = NoUser
           THEN /\ last' = Step("disconnect", sid, "start", TRUE, None, None, None, <<>>, None)
                /\ UNCHANGED <<meetings, active_users, pending>>
           ELSE IF ~known
           THEN /\ active_users' = DelUser(active_users, sid)
                /\ last' = Step("disconnect", sid, "start", TRUE, None, meeting_code, None,
                                <<>>, None)
                /\ UNCHANGED <<meetings, pending>>
           ELSE IF host
           THEN /\ last' = Step("disconnect", sid, "start", FALSE, None, meeting_code, None,
                                <<Emit("meeting_ended", None, meeting_code, None, None,
                                       rooms, conn1)>>, None)
                /\ pending' = Suspend(Suspended("disconnect", sid, "del_meeting", None,
                                                meeting_code))
                /\ UNCHANGED <<meetings, active_users>>
           ELSE /\ meetings' =
                      IF InList(sid, meetings[meeting_code].participants)
                      THEN [meetings EXCEPT ![meeting_code].participants = ListRemove(@, sid)]
                      ELSE meetings
                /\ last' = Step("disconnect", sid, "start", FALSE, None, meeting_code, None,
                                <<Emit("participant_left", None, meeting_code, None, sid,
                                       rooms, conn1)>>, None)
                /\ pending' = Suspend(Suspended("disconnect", sid, "del_user", None,
                                                meeting_code))
                /\ UNCHANGED active_users

\* disconnect resumed after its awaited emit (line 39, or line 46 after line 44)
disconnect_resume(h) ==
    LET sid == h.sid
        meeting_code == h.meeting_code
        delMeetingFails == h.pc = "del_meeting" /\ meetings[meeting_code] = NoMeeting
        delUserFails == active_users[sid] = NoUser
    IN  /\ BagIn(h, pending)
        /\ h.op = "disconnect"
        /\ pending' = Resume(h)
        /\ meetings' = IF h.pc = "del_meeting" /\ ~delMeetingFails
                       THEN [meetings EXCEPT ![meeting_code] = NoMeeting]
                       ELSE meetings
        /\ active_users' = IF delMeetingFails \/ delUserFails
                           THEN active_users
                           ELSE DelUser(active_users, sid)
        /\ cleaned' = IF delMeetingFails \/ delUserFails THEN cleaned
                      ELSE cleaned \cup {sid}
        /\ last' = Step("disconnect", sid, "resume", TRUE, None, meeting_code, None, <<>>,
                        IF delMeetingFails \/ delUserFails THEN "KeyError" ELSE None)
        /\ UNCHANGED <<rooms, conn, nev>>

\* a request_join that does not look the code up
JoinCodeUnchecked(meeting_code) == TRUE

\* line 68: `meeting_code not in meetings`, negated
JoinCodeKnown(meeting_code) == meetings[meeting_code] # NoMeeting

request_join(sid, meeting_code) ==
    /\ CanStart
    /\ conn[sid] = "live"
    /\ nev' = nev + 1
    /\ UNCHANGED <<meetings, active_users, rooms, conn, cleaned>>
    /\ IF ~JoinCodeKnown(meeting_code)
       THEN /\ last' = Step("request_join", sid, "start", TRUE, None, meeting_code, None,
                            <<Emit("join_error", sid, None, None, None, rooms, conn)>>, None)
            /\ UNCHANGED pending
       ELSE /\ CanSuspend
            /\ last' = Step("request_join", sid, "start", FALSE, None, meeting_code, None,
                            <<Emit("join_request_received", meetings[meeting_code].host_sid,
                                   None, None, sid, rooms, conn)>>, None)
            /\ pending' = Suspend(Suspended("request_join", sid, "waiting", None,
                                            meeting_code))

\* request_join resumed after line 75
request_join_resume(h) ==
    /\ BagIn(h, pending)
    /\ h.op = "request_join"
    /\ pending' = Resume(h)
    /\ last' = Step("request_join", h.sid, "resume", TRUE, None, h.meeting_code, None,
                    <<Emit("waiting_for_host", h.sid, None, None, None, rooms, conn)>>, None)
    /\ UNCHANGED <<meetings, active_users, rooms, conn, nev, cleaned>>

\* a host_response that admits whatever the action says
AdmitsAlways(action) == TRUE

\* line 85: `action == "allow"`
Admits(action) == action = "allow"

host_response(sid, requester_sid, action, user_id) ==
    LET meeting_code == IF active_users[sid] = NoUser THEN None
                        ELSE active_users[sid].meeting_code
        \* sio.enter_room(requester_sid, None) is the room of all connections
        rooms1 == IF meeting_code = None THEN rooms
                  ELSE [rooms EXCEPT ![meeting_code] = @ \cup {requester_sid}]
        missing == meeting_code = None \/ meetings[meeting_code] = NoMeeting
    IN  /\ CanStart
        /\ conn[sid] = "live"
        /\ conn[requester_sid] # "new"
        /\ nev' = nev + 1
        /\ UNCHANGED conn
        /\ IF Admits(action)
           THEN IF missing
                THEN /\ rooms' = rooms1
                     /\ last' = Step("host_response", sid, "start", TRUE, requester_sid,
                                     meeting_code, action, <<>>, "KeyError")
                     /\ UNCHANGED <<meetings, active_users, pending, cleaned>>
                ELSE /\ CanSuspend
                     /\ cleaned' = cleaned \ {requester_sid}
                     /\ Len(meetings[meeting_code].participants) < MaxPart
                     /\ rooms' = rooms1
                     /\ meetings' = [meetings EXCEPT ![meeting_code].participants =
                                        Append(@, requester_sid)]
                     /\ active_users' = [active_users EXCEPT ![requester_sid] =
                                        [user_id |-> user_id, meeting_code |-> meeting_code,
                                         role |-> "participant"]]
                     /\ last' = Step("host_response", sid, "start", FALSE, requester_sid,
                                     meeting_code, action,
                                     <<Emit("join_accepted", requester_sid, None, None,
                                            meeting_code, rooms1, conn)>>, None)
                     /\ pending' = Suspend(Suspended("host_response", sid, "joined",
                                                     requester_sid, meeting_code))
           ELSE /\ last' = Step("host_response", sid, "start", TRUE, requester_sid,
                                meeting_code, action,
                                <<Emit("join_denied", requester_sid, None, None, None,
                                       rooms, conn)>>, None)
                /\ UNCHANGED <<meetings, active_users, rooms, pending, cleaned>>

\* a broadcast that does not skip the requester
ParticipantJoinedToAll(requester_sid, meeting_code) ==
    Emit("participant_joined", None, meeting_code, None, requester_sid, rooms, conn)

\* line 92: the broadcast to the room, the requester skipped
ParticipantJoined(requester_sid, meeting_code) ==
    Emit("participant_joined", None, meeting_code, requester_sid, requester_sid, rooms, conn)

\* host_response resumed after line 91
host_response_resume(h) ==
    /\ BagIn(h, pending)
    /\ h.op = "host_response"
    /\ pending' = Resume(h)
    /\ last' = Step("host_response", h.sid, "resume", TRUE, h.target, h.meeting_code, "allow",
                    <<ParticipantJoined(h.target, h.meeting_code)>>, None)
    /\ UNCHANGED <<meetings, active_users, rooms, conn, nev, cleaned>>

kick_participant(sid, target_sid) ==
    LET user_data == active_users[sid]
        meeting_code == IF user_data = NoUser THEN None ELSE user_data.meeting_code
    IN  /\ CanStart
        /\ conn[sid] = "live"
        /\ conn[target_sid] # "new"
        /\ nev' = nev + 1
        /\ UNCHANGED <<meetings, active_users, rooms, conn, cleaned>>
        /\ IF ~IsHost(user_data)
           THEN /\ last' = Step("kick_participant", sid, "start", TRUE, target_sid,
                                meeting_code, None, <<>>, None)
                /\ UNCHANGED pending
           ELSE IF meetings[meeting_code] = NoMeeting
           THEN /\ last' = Step("kick_participant", sid, "start", TRUE, target_sid,
                                meeting_code, None, <<>>, "KeyError")
                /\ UNCHANGED pending
           ELSE IF ~InList(target_sid, meetings[meeting_code].participants)
           THEN /\ last' = Step("kick_participant", sid, "start", TRUE, target_sid,
                                meeting_code, None, <<>>, None)
                /\ UNCHANGED pending
           ELSE /\ CanSuspend
                /\ last' = Step("kick_participant", sid, "start", FALSE, target_sid,
                                meeting_code, None,
                                <<Emit("kicked_by_host", target_sid, None, None, None,
                                       rooms, conn)>>, None)
                /\ pending' = Suspend(Suspended("kick_participant", sid, "remove",
                                                target_sid, meeting_code))

\* kick_participant resumed after line 106
kick_participant_resume(h) ==
    LET meeting_code == h.meeting_code
        target_sid == h.target
        rooms1 == [rooms EXCEPT ![meeting_code] = @ \ {target_sid}]
        error == IF meetings[meeting_code] = NoMeeting THEN "KeyError"
                 ELSE IF ~InList(target_sid, meetings[meeting_code].participants)
                 THEN "ValueError"
                 ELSE None
    IN  /\ BagIn(h, pending)
        /\ h.op = "kick_participant"
        /\ pending' = Resume(h)
        /\ rooms' = rooms1
        /\ meetings' = IF error # None THEN meetings
                       ELSE [meetings EXCEPT ![meeting_code].participants =
                                ListRemove(@, target_sid)]
        /\ last' = Step("kick_participant", h.sid, "resume", TRUE, target_sid, meeting_code,
                        None,
                        IF error # None THEN <<>>
                        ELSE <<Emit("participant_left", None, meeting_code, None, target_sid,
                                    rooms1, conn)>>,
                        error)
        /\ UNCHANGED <<active_users, conn, nev, cleaned>>

end_meeting(sid) ==
    LET user_data == active_users[sid]
        meeting_code == IF user_data = NoUser THEN None ELSE user_data.meeting_code
    IN  /\ CanStart
        /\ conn[sid] = "live"
        /\ nev' = nev + 1
        /\ UNCHANGED <<meetings, active_users, rooms, conn, cleaned>>
        /\ IF ~IsHost(user_data)
           THEN /\ last' = Step("end_meeting", sid, "start", TRUE, None, meeting_code, None,
                                <<>>, None)
                /\ UNCHANGED pending
           ELSE /\ CanSuspend
                /\ last' = Step("end_meeting", sid, "start", FALSE, None, meeting_code, None,
                                <<Emit("meeting_ended", None, meeting_code, None, None,
                                       rooms, conn)>>, None)
                /\ pending' = Suspend(Suspended("end_meeting", sid, "cleanup", None,
                                                meeting_code))

\* an end_meeting that also drops the host's entry, as disconnect does
end_meeting_resume_drops_host(h) ==
    /\ BagIn(h, pending)
    /\ h.op = "end_meeting"
    /\ pending' = Resume(h)
    /\ meetings' = IF meetings[h.meeting_code] # NoMeeting
                   THEN [meetings EXCEPT ![h.meeting_code] = NoMeeting]
                   ELSE meetings
    /\ last' = Step("end_meeting", h.sid, "resume", TRUE, None, h.meeting_code, None, <<>>,
                    None)
    /\ active_users' = [active_users EXCEPT ![h.sid] = NoUser]
    /\ UNCHANGED <<rooms, conn, nev, cleaned>>

\* end_meeting resumed after line 116
end_meeting_resume(h) ==
    /\ BagIn(h, pending)
    /\ h.op = "end_meeting"
    /\ pending' = Resume(h)
    /\ meetings' = IF meetings[h.meeting_code] # NoMeeting
                   THEN [meetings EXCEPT ![h.meeting_code] = NoMeeting]
                   ELSE meetings
    /\ last' = Step("end_meeting", h.sid, "resume", TRUE, None, h.meeting_code, None, <<>>,
                    None)
    /\ UNCHANGED <<active_users, rooms, conn, nev, cleaned>>

webrtc_signal(sid, target_sid) ==
    /\ CanStart
    /\ conn[sid] = "live"
    /\ conn[target_sid] # "new"
    /\ nev' = nev + 1
    /\ last' = Step("webrtc_signal", sid, "start", TRUE, target_sid, None, None,
                    <<Emit("webrtc_signal", target_sid, None, None, sid, rooms, conn)>>, None)
    /\ UNCHANGED <<meetings, active_users, rooms, conn, pending, cleaned>>

Next ==
    \/ \E s \in Sids : connect(s)
    \/ \E s \in Sids : disconnect(s)
    \/ \E h \in BagToSet(pending) : disconnect_resume(h)
    \/ \E s \in Sids, c \in Codes, u \in UserIds : start_meeting(s, c, u)
    \/ \E s \in Sids, c \in Codes : request_join(s, c)
    \/ \E h \in BagToSet(pending) : request_join_resume(h)
    \/ \E s \in Sids, r \in Sids, a \in Actions, u \in UserIds : host_response(s, r, a, u)
    \/ \E h \in BagToSet(pending) : host_response_resume(h)
    \/ \E s \in Sids, t \in Sids : kick_participant(s, t)
    \/ \E h \in BagToSet(pending) : kick_participant_resume(h)
    \/ \E s \in Sids : end_meeting(s)
    \/ \E h \in BagToSet(pending) : end_meeting_resume(h)
    \/ \E s \in Sids, t \in Sids : webrtc_signal(s, t)

Spec == Init /\ [][Next]_vars

\* ---- properties ----
Count(x, s) == Cardinality({i \in 1..Len(s) : s[i] = x})

Exists(m) == meetings[m] # NoMeeting

\* a step that starts a handler (an event is dispatched)
Dispatch(op) == nev' = nev + 1 /\ last'.op = op /\ last'.phase = "start"

\* a step that resumes a suspended handler
Resumed(op) == pending' # pending /\ nev' = nev /\ last'.op = op /\ last'.phase = "resume"

RegistriesUnchanged == meetings' = meetings /\ active_users' = active_users

\* C1: no meeting's participants contains that meeting's own host_sid.
C1_HostNotParticipant ==
    \A m \in Codes : Exists(m) => ~InList(meetings[m].host_sid, meetings[m].participants)

\* C2: every connection id is referenced, as host_sid or in participants, by at
\* most one meeting, and occurs at most once in that meeting's participants.
C2_OneMeetingPerConnection ==
    \A s \in Sids :
       /\ Cardinality({m \in Codes : Exists(m) /\ (meetings[m].host_sid = s
                          \/ InList(s, meetings[m].participants))}) <= 1
       /\ \A m \in Codes : Exists(m) => Count(s, meetings[m].participants) <= 1

\* C3: for every meeting m, the host_sid has an active_users entry with
\* meeting_code m and role host, and every participant has an entry with
\* meeting_code m and role participant.
C3_MembersRegistered ==
    \A m \in Codes : Exists(m) =>
       /\ active_users[meetings[m].host_sid] # NoUser
       /\ active_users[meetings[m].host_sid].meeting_code = m
       /\ active_users[meetings[m].host_sid].role = "host"
       /\ \A i \in 1..Len(meetings[m].participants) :
             LET p == meetings[m].participants[i]
             IN  /\ active_users[p] # NoUser
                 /\ active_users[p].meeting_code = m
                 /\ active_users[p].role = "participant"

\* C4: a step of kick_participant or end_meeting changes a meeting only if the
\* invoking connection is that meeting's current host_sid.
C4_OnlyCurrentHostChanges ==
    [][(last'.op \in {"kick_participant", "end_meeting"} /\ meetings' # meetings)
         => \A m \in Codes : meetings'[m] # meetings[m] => meetings[m].host_sid = last'.sid]_vars

\* C5: host_response with action allow from a connection that does not hold
\* role host changes neither registry, emits nothing and raises nothing.
C5_NonHostAllowIgnored ==
    [][(Dispatch("host_response") /\ last'.action = "allow"
          /\ (active_users[last'.sid] = NoUser \/ active_users[last'.sid].role # "host"))
         => (RegistriesUnchanged /\ last'.emits = <<>> /\ last'.error = None)]_vars

\* C6: kick_participant or end_meeting from a connection whose entry has role
\* participant, or that has no entry, changes neither registry and emits nothing.
C6_NonHostControlNoEffect ==
    [][((Dispatch("kick_participant") \/ Dispatch("end_meeting"))
          /\ (active_users[last'.sid] = NoUser
                \/ active_users[last'.sid].role = "participant"))
         => (RegistriesUnchanged /\ rooms' = rooms /\ pending' = pending
               /\ last'.emits = <<>> /\ last'.error = None)]_vars

\* C6 witness: a participant of a meeting with a participant in it has just sent
\* kick_participant naming that participant.
C6_Witness ==
    /\ last.op = "kick_participant" /\ last.phase = "start"
    /\ active_users[last.sid] # NoUser
    /\ active_users[last.sid].role = "participant"
    /\ Exists(last.code)
    /\ InList(last.arg, meetings[last.code].participants)

\* C7: no step of any handler raises.
C7_NoHandlerRaises == last.error = None

\* C8: request_join with a code that has no meeting emits exactly one
\* join_error, to the requester alone, and changes neither registry.
C8_UnknownCodeJoinError ==
    [][(Dispatch("request_join") /\ ~Exists(last'.code))
         => /\ Len(last'.emits) = 1
            /\ last'.emits[1].event = "join_error"
            /\ last'.emits[1].to = last'.sid
            /\ last'.emits[1].room = None
            /\ last'.emits[1].recv = {last'.sid}
            /\ pending' = pending
            /\ RegistriesUnchanged /\ rooms' = rooms]_vars

\* C8 witness: a join_error was just sent for one code while a meeting exists
\* under another.
C8_Witness ==
    /\ last.op = "request_join" /\ Len(last.emits) = 1
    /\ last.emits[1].event = "join_error"
    /\ ~Exists(last.code)
    /\ \E m \in Codes : Exists(m)

\* C9: once disconnect(c) has returned, a further disconnect(c) changes neither
\* registry, emits nothing and raises nothing.
C9_SecondDisconnectNoOp ==
    [][(Dispatch("disconnect") /\ last'.sid \in cleaned)
         => (RegistriesUnchanged /\ rooms' = rooms /\ pending' = pending
               /\ last'.emits = <<>> /\ last'.error = None)]_vars

\* C9 witness: a connection that was registered (it is still in a room it was
\* entered into) and whose disconnect has returned has been disconnected again.
C9_Witness ==
    /\ last.op = "disconnect" /\ last.phase = "start" /\ last.code = None
    /\ last.sid \in cleaned
    /\ \E m \in Codes : last.sid \in rooms[m]

\* the suspended kick_participant handlers for one target in one meeting
PendingKicks(b, m, t) ==
    {h \in BagToSet(b) : h.op = "kick_participant" /\ h.meeting_code = m /\ h.target = t}

\* C10: of the kick_participant handlers for one target in one meeting, at most
\* one goes on to the removal: when a handler has removed the target and
\* broadcast participant_left, no other handler is left suspended between its
\* membership test and its own removal of that target.
C10_OneKickRemoves ==
    [][Resumed("kick_participant")
          /\ last'.error = None
         => PendingKicks(pending', last'.code, last'.arg) = {}]_vars

\* the sids listed in a meeting's participants
Members(mt) == {mt.participants[i] : i \in 1..Len(mt.participants)}

\* C11: in a participant's disconnect, the removal from participants and the
\* removal of the registry entry happen in one step: the step that takes the
\* connection out of its meeting's participants also deletes its entry, so no
\* interleaved handler sees the one without the other.
C11_RemovalsTogether ==
    [][(Dispatch("disconnect") /\ meetings' # meetings)
         => active_users'[last'.sid] = NoUser]_vars

\* C12: host_response with action allow naming a requester whose disconnect
\* has returned adds it to no meeting's participants and creates no registry
\* entry for it.
C12_StaleRequesterIgnored ==
    [][(Dispatch("host_response") /\ last'.action = "allow" /\ last'.arg \in cleaned)
         => /\ active_users'[last'.arg] = NoUser
            /\ \A m \in Codes : Exists(m)' => last'.arg \notin Members(meetings'[m])]_vars

\* the connected sids the registry lists for a code: its host and participants
Listed(m) ==
    IF Exists(m)
    THEN {s \in {meetings[m].host_sid} \cup Members(meetings[m]) : conn[s] = "live"}
    ELSE {}

\* C13: every room broadcast of the step just taken was delivered to exactly
\* the host and the participants the registry lists for that code, minus the
\* excluded connection, and to nobody when the code has no meeting.  (Every
\* handler emits with the registry as its step leaves it.)
C13_BroadcastMatchesRegistry ==
    \A i \in 1..Len(last.emits) :
       last.emits[i].room # None
          => last.emits[i].recv = Listed(last.emits[i].room) \ {last.emits[i].skip_sid}

\* C14 as stated: when the host has allowed a requester into a meeting with no
\* other participants, the participant_joined broadcast is delivered to nobody
\* (the host receives nothing).
C14_JoinedReachesNobody ==
    [][(Resumed("host_response") /\ Exists(last'.code)
          /\ meetings[last'.code].host_sid = last'.sid
          /\ meetings[last'.code].participants = <<last'.arg>>
          /\ last'.arg # last'.sid)
         => \A i \in 1..Len(last'.emits) : last'.emits[i].recv = {}]_vars

\* C14 amended: when the host allows a requester P into a meeting with no other
\* participants, join_accepted carrying the meeting code goes to P alone; the
\* participant_joined broadcast skips P and, when the room holds only the host
\* and P, is delivered to the host (if it is still connected).
C14_JoinedReachesHost ==
    [][/\ (Dispatch("host_response") /\ last'.action = "allow" /\ last'.error = None
             /\ active_users[last'.sid] # NoUser /\ active_users[last'.sid].role = "host"
             /\ meetings[last'.code].participants = <<>>)
          => /\ Len(last'.emits) = 1
             /\ last'.emits[1].event = "join_accepted"
             /\ last'.emits[1].to = last'.arg
             /\ last'.emits[1].arg = last'.code
             /\ last'.emits[1].recv = {s \in {last'.arg} : conn[s] = "live"}
       /\ (Resumed("host_response") /\ last'.arg # last'.sid
             /\ rooms[last'.code] = {last'.sid, last'.arg})
          => /\ Len(last'.emits) = 1
             /\ last'.emits[1].event = "participant_joined"
             /\ last'.emits[1].arg = last'.arg
             /\ last'.emits[1].recv = {s \in {last'.sid} : conn[s] = "live"}]_vars

\* C14 witness: the host of a meeting whose only participant is the requester
\* it allowed has just received the participant_joined broadcast, alone.
C14_Witness ==
    /\ last.op = "host_response" /\ last.phase = "resume"
    /\ Exists(last.code)
    /\ meetings[last.code].host_sid = last.sid
    /\ meetings[last.code].participants = <<last.arg>>
    /\ rooms[last.code] = {last.sid, last.arg}
    /\ last.arg # last.sid
    /\ last.emits[1].recv = {last.sid}

\* C15: when the connection that holds role host for an existing meeting m
\* disconnects, every participant of m receives meeting_ended; once that
\* handler has resumed, m is absent from the registry; and any start_meeting
\* with a code creates a meeting hosted by its sender with no participants.
C15_HostDisconnectEndsMeeting ==
    [][/\ (Dispatch("disconnect") /\ active_users[last'.sid] # NoUser
             /\ active_users[last'.sid].role = "host"
             /\ Exists(active_users[last'.sid].meeting_code))
          => /\ Len(last'.emits) = 1
             /\ last'.emits[1].event = "meeting_ended"
             /\ Members(meetings[active_users[last'.sid].meeting_code])
                   \subseteq last'.emits[1].recv
       /\ \A h \in BagToSet(pending) :
             (h.op = "disconnect" /\ h.pc = "del_meeting" /\ pending' = pending (-) SetToBag({h}))
                => meetings'[h.meeting_code] = NoMeeting
       /\ Dispatch("start_meeting")
             => meetings'[last'.code] = [host_sid |-> last'.sid, participants |-> <<>>]]_vars

\* C16: a kick_participant by the host of a target listed in participants sends
\* kicked_by_host to the target, which receives it if connected; when it
\* resumes and removes the target, the target is no longer in participants,
\* every remaining connected participant receives participant_left naming the
\* target, and no registry entry of any connection changes in either step.
C16_KickEffects ==
    [][/\ (Dispatch("kick_participant") /\ pending' # pending)
          => /\ Len(last'.emits) = 1
             /\ last'.emits[1].event = "kicked_by_host"
             /\ last'.emits[1].recv = {s \in {last'.arg} : conn[s] = "live"}
             /\ active_users' = active_users
       /\ (Resumed("kick_participant") /\ last'.error = None)
          => /\ last'.arg \notin Members(meetings'[last'.code])
             /\ Len(last'.emits) = 1
             /\ last'.emits[1].event = "participant_left"
             /\ last'.emits[1].arg = last'.arg
             /\ {s \in Members(meetings'[last'.code]) : conn[s] = "live"}
                   \subseteq last'.emits[1].recv
             /\ active_users' = active_users]_vars

\* C17: end_meeting by a host leaves the Connection Registry unchanged in both
\* of its steps; when it resumes, the Meeting Registry entry for its meeting
\* code is absent and no other meeting is touched.
C17_EndMeetingKeepsUsers ==
    [][/\ (Dispatch("end_meeting") /\ active_users[last'.sid] # NoUser
             /\ active_users[last'.sid].role = "host")
          => (RegistriesUnchanged /\ last'.code = active_users[last'.sid].meeting_code)
       /\ Resumed("end_meeting")
          => /\ active_users' = active_users
             /\ meetings'[last'.code] = NoMeeting
             /\ \A m \in Codes \ {last'.code} : meetings'[m] = meetings[m]]_vars

\* C17 witness: after start_meeting, an admission and end_meeting, the meeting
\* is gone while the host's entry still has role host and the ended code and
\* the participant's entry is still there.
C17_Witness ==
    /\ last.op = "end_meeting" /\ last.phase = "resume" /\ nev = 3
    /\ ~Exists(last.code)
    /\ active_users[last.sid] = [user_id |-> "u1", meeting_code |-> last.code, role |-> "host"]
    /\ \E p \in Sids \ {last.sid} :
          /\ active_users[p] # NoUser
          /\ active_users[p].role = "participant"
          /\ active_users[p].meeting_code = last.code

\* C18: no step of request_join, whether the code is known or not, and no
\* host_response with action deny changes the Meeting Registry or the
\* Connection Registry; deny emits one join_denied, addressed to the requester
\* and delivered to nobody else.
C18_OnlyAllowMutates ==
    [][/\ last'.op = "request_join" => RegistriesUnchanged
       /\ (Dispatch("host_response") /\ last'.action = "deny")
          => /\ RegistriesUnchanged
             /\ Len(last'.emits) = 1
             /\ last'.emits[1].event = "join_denied"
             /\ last'.emits[1].to = last'.arg
             /\ last'.emits[1].room = None
             /\ last'.emits[1].recv = {s \in {last'.arg} : conn[s] = "live"}
             /\ pending' = pending]_vars

\* C18 witness: the host of an existing meeting has just denied a connected
\* requester, which received join_denied and is in no registry.
C18_Witness ==
    /\ last.op = "host_response" /\ last.action = "deny"
    /\ last.code \in Codes
    /\ Exists(last.code)
    /\ meetings[last.code].host_sid = last.sid
    /\ last.arg # last.sid
    /\ last.emits[1].recv = {last.arg}
    /\ active_users[last.arg] = NoUser
    /\ meetings[last.code].participants = <<>>

\* C19: once no connection is connected any more and no handler is suspended,
\* the Connection Registry and the Meeting Registry are both empty.
C19_NoStateLeaks ==
    ((\A s \in Sids : conn[s] # "live") /\ pending = EmptyBag)
       => /\ \A s \in Sids : active_users[s] = NoUser
          /\ \A m \in Codes : ~Exists(m)

\* C20: participant_left naming p is broadcast only by a step that takes one
\* occurrence of p out of the participants of the meeting it is broadcast to, so
\* at most once for each admission of p and only when p was listed.
C20_LeftOncePerAdmission ==
    [][\A i \in 1..Len(last'.emits) :
          last'.emits[i].event = "participant_left"
             => /\ Exists(last'.emits[i].room)
                /\ meetings'[last'.emits[i].room] # NoMeeting
                /\ Count(last'.emits[i].arg, meetings[last'.emits[i].room].participants)
                     = Count(last'.emits[i].arg, meetings'[last'.emits[i].room].participants) + 1]_vars

====
